---- MODULE Spec2Model ----
(***************************************************************************)
(* Dashboard Agricola de Goias: the load/merge step and the per-run        *)
(* filter/aggregate steps of the two Streamlit scripts, streamlit_app.py   *)
(* and prueba.py.                                                          *)
(*                                                                         *)
(* Representation.                                                         *)
(*  - A crop or municipality name is represented by its rank in the        *)
(*    lexicographic order of the names (1, 2, ...), so that sorted() and   *)
(*    the sorted group keys of groupby() are the integer order.            *)
(*  - A DataFrame is the set of its rows (records); the row order of the   *)
(*    fact table is never read by the scripts (options are sorted(),       *)
(*    groupby sorts its keys).  Tables whose order is produced by the      *)
(*    code (time series, bar data) are sequences.                          *)
(*  - Measures are natural numbers; a quotient is kept as an exact         *)
(*    fraction <<numerator, denominator>> in lowest terms.                 *)
(***************************************************************************)
EXTENDS Integers, Sequences, FiniteSets, TLC

VARIABLES
    app,                    \* which script runs: "streamlit_app" or "prueba"
    existe,                 \* the metrics whose Excel file is present in data/
    fonte,                  \* fonte[m]: rows of the file of metric m (if read)
    geojson_existe,         \* assets/geojs-52-mun.json is present (prueba)
    cache,                  \* st.cache_data: <<>> or <<the value returned>>
    df_none,                \* df is None
    df,                     \* the merged fact table (set of rows)
    error_path,             \* the metric whose path was returned, "" = None
    geojson_none,           \* geojson_data is None (prueba)
    pc,                     \* position of the script in the current run
    widgets,                \* the filter widgets evaluated in this run
    cultura_selecionada,    \* SemCultura = selectbox returned None
    municipio_selecionado,  \* Todos = 'Todos os Municipios'
    ano_selecionado,        \* <<lo, hi>>
    df_filtrado,
    latest_year_in_range,
    kpi,                    \* <<>> or <<the four KPI values>>
    time_series_data,       \* sequence of yearly rows
    metric_key,             \* "" until the metric selectbox is evaluated
    bar_data,               \* sequence of [grupo, valor]
    tela                    \* elements rendered in this run, in order

vars == <<app, existe, fonte, geojson_existe, cache, df_none, df,
          error_path, geojson_none, pc, widgets, cultura_selecionada,
          municipio_selecionado, ano_selecionado, df_filtrado,
          latest_year_in_range, kpi, time_series_data, metric_key,
          bar_data, tela>>

(***************************************************************************)
(* Bounds of the inputs.                                                   *)
(***************************************************************************)
\* Rows of the reported data when the four files are present.
MaxLinhas == 3
\* Rows of the reported data when some file is missing.
MaxLinhasFalha == 1
\* Municipalities (or crops) of the wide data sets used for the ranking.
NumTop == 12

Anos == 1..2
Culturas == 1..2
Municipios == 1..2

(***************************************************************************)
(* Program constants.                                                      *)
(***************************************************************************)
\* file_paths: the dict is iterated in insertion order.
Metricas == <<"Area", "Toneladas", "Valor_Produccion", "Rendimento">>
MetricasSet == {Metricas[i] : i \in 1..Len(Metricas)}
\* nlargest(10, ...)
TopN == 10
\* 'Todos os Municipios', the first option of the municipality selectbox.
Todos == 0
\* None returned by a selectbox without options.
SemCultura == 0
\* A cell the outer join leaves empty (NaN).
NaN == -1

(***************************************************************************)
(* Arithmetic helpers.                                                     *)
(***************************************************************************)
RECURSIVE GCD(_, _)
GCD(a, b) == IF b = 0 THEN a ELSE GCD(b, a % b)

\* The exact quotient n / d (n >= 0) in lowest terms; a zero denominator is
\* kept (the inf or nan of a division by zero).
Frac(n, d) == IF d = 0 THEN <<n, 0>>
              ELSE LET g == GCD(n, d) IN <<n \div g, d \div g>>

FracMaior(x, y) == x[1] * y[2] > y[1] * x[2]

Min(a, b) == IF a <= b THEN a ELSE b

SetMax(S) == CHOOSE x \in S : \A y \in S : y <= x

SetMin(S) == CHOOSE x \in S : \A y \in S : x <= y

\* sorted(S) for a set of integers.
RECURSIVE Sorted(_)
Sorted(S) == IF S = {} THEN <<>>
             ELSE LET m == SetMin(S) IN <<m>> \o Sorted(S \ {m})

\* Series.sum() of column col over the rows S.
RECURSIVE Soma(_, _)
Soma(S, col) == IF S = {} THEN 0
                ELSE LET r == CHOOSE r \in S : TRUE
                     IN r[col] + Soma(S \ {r}, col)

\* (S[c1] * S[c2]).sum()
RECURSIVE SomaProd(_, _, _)
SomaProd(S, c1, c2) == IF S = {} THEN 0
                       ELSE LET r == CHOOSE r \in S : TRUE
                            IN r[c1] * r[c2] + SomaProd(S \ {r}, c1, c2)

(***************************************************************************)
(* carregar_e_preparar_dados                                               *)
(***************************************************************************)
\* set_index(['Ano', 'Cultura', 'Municipio'])
Chave(r) == <<r.Ano, r.Cultura, r.Municipio>>

ChavesDe(S) == {Chave(r) : r \in S}

\* The first file of file_paths that cannot be read, 0 when all can.
PrimeiroAusente(ex) ==
    IF \A i \in 1..Len(Metricas) : Metricas[i] \in ex THEN 0
    ELSE SetMin({i \in 1..Len(Metricas) : Metricas[i] \notin ex})

\* The cells the join puts in column m of the row of key k: the values of
\* the rows of source m with that key, NaN when there is none.
Celulas(f, m, k) ==
    LET S == {r \in f[m] : Chave(r) = k}
    IN IF S = {} THEN {NaN} ELSE {r.Valor : r \in S}

\* The rows the join produces for key k.
LinhasDaChave(f, k) ==
    {[Ano |-> k[1], Cultura |-> k[2], Municipio |-> k[3],
      Area |-> a, Toneladas |-> t, Valor_Produccion |-> v, Rendimento |-> y] :
        a \in Celulas(f, "Area", k), t \in Celulas(f, "Toneladas", k),
        v \in Celulas(f, "Valor_Produccion", k), y \in Celulas(f, "Rendimento", k)}

\* how='inner' instead of how='outer'.
InnerJoin(f) ==
    UNION {LinhasDaChave(f, k) :
             k \in {k \in ChavesDe(f["Area"]) :
                      \A m \in MetricasSet : k \in ChavesDe(f[m])}}

\* dataframes[0].join(dataframes[1:], how='outer')
OuterJoin(f) ==
    UNION {LinhasDaChave(f, k) : k \in UNION {ChavesDe(f[m]) : m \in MetricasSet}}

\* fillna(0) on one cell.
FillNa(v) == IF v = NaN THEN 0 ELSE v

\* df_merged.fillna(0) and the numeric coercion of the four measures.
FillNaRows(S) ==
    {[r EXCEPT !.Area = FillNa(@), !.Toneladas = FillNa(@),
               !.Valor_Produccion = FillNa(@), !.Rendimento = FillNa(@)] : r \in S}

\* The value returned when every file is read.
DfMerged(f) == FillNaRows(OuterJoin(f))

\* 'except FileNotFoundError: continue': the readable files are merged.
CarregarParcial(ex, f) ==
    [df_none |-> FALSE,
     df |-> DfMerged([m \in MetricasSet |-> IF m \in ex THEN f[m] ELSE {}]),
     error_path |-> ""]

\* carregar_e_preparar_dados() without the cache: (df, None) or (None, path).
CarregarEPrepararDados(ex, f) ==
    LET i == PrimeiroAusente(ex)
    IN IF i # 0
       THEN [df_none |-> TRUE, df |-> {}, error_path |-> Metricas[i]]
       ELSE [df_none |-> FALSE, df |-> DfMerged(f), error_path |-> ""]

(***************************************************************************)
(* Filtering and aggregation (module level of the scripts)                 *)
(***************************************************************************)
\* sorted(df['Cultura'].unique())
OpcoesCultura(d) == {r.Cultura : r \in d}

\* ['Todos os Municipios'] + municipios_disponiveis
OpcoesMunicipio(d, c) == {Todos} \cup {r.Municipio : r \in {x \in d : x.Cultura = c}}

\* The options of the year slider: range(min_ano, max_ano + 1).
OpcoesAno(d) == SetMin({r.Ano : r \in d}) .. SetMax({r.Ano : r \in d})

\* The year filter with '<' for '<='.
FiltrarAnoExclusivo(d, c, m, lo, hi) ==
    LET base == IF m = Todos
                THEN {r \in d : r.Cultura = c}
                ELSE {r \in d : r.Cultura = c /\ r.Municipio = m}
    IN {r \in base : r.Ano >= lo /\ r.Ano < hi}

\* df_filtrado_base, then the year filter.
Filtrar(d, c, m, lo, hi) ==
    LET base == IF m = Todos
                THEN {r \in d : r.Cultura = c}
                ELSE {r \in d : r.Cultura = c /\ r.Municipio = m}
    IN {r \in base : r.Ano >= lo /\ r.Ano <= hi}

\* int(df_filtrado['Ano'].max())
LatestYear(S) == SetMax({r.Ano : r \in S})

UltimoAno(S) == {r \in S : r.Ano = LatestYear(S)}

\* avg_rendimento without the 'if total_area > 0' guard.
AvgRendimentoSemGuarda(S) ==
    Frac(SomaProd(S, "Rendimento", "Area"), Soma(S, "Area"))

\* avg_rendimento of the KPI block.
AvgRendimento(S) ==
    IF Soma(S, "Area") > 0
    THEN Frac(SomaProd(S, "Rendimento", "Area"), Soma(S, "Area"))
    ELSE <<0, 1>>

Kpis(S) ==
    [total_area |-> Soma(S, "Area"),
     total_toneladas |-> Soma(S, "Toneladas"),
     total_valor |-> Soma(S, "Valor_Produccion"),
     avg_rendimento |-> AvgRendimento(S)]

\* group['Rendimento'].mean() instead of the weighted mean.
RendimentoMedioSimples(group) == Frac(Soma(group, "Rendimento"), Cardinality(group))

\* rendimento_ponderado of calcular_metricas_anuais.
RendimentoPonderado(group) ==
    IF Soma(group, "Area") > 0
    THEN Frac(SomaProd(group, "Rendimento", "Area"), Soma(group, "Area"))
    ELSE <<0, 1>>

CalcularMetricasAnuais(group) ==
    [Area |-> Soma(group, "Area"),
     Toneladas |-> Soma(group, "Toneladas"),
     Valor_Produccion |-> Soma(group, "Valor_Produccion"),
     Rendimento |-> RendimentoPonderado(group)]

\* df_filtrado.groupby('Ano').apply(calcular_metricas_anuais).reset_index()
TimeSeries(S) ==
    LET anos == Sorted({r.Ano : r \in S})
    IN [i \in 1..Len(anos) |->
          LET m == CalcularMetricasAnuais({r \in S : r.Ano = anos[i]})
          IN [Ano |-> anos[i], Area |-> m.Area, Toneladas |-> m.Toneladas,
              Valor_Produccion |-> m.Valor_Produccion, Rendimento |-> m.Rendimento]]

\* The options of the metric selectbox, in the order listed.
OpcoesMetrica == {"Toneladas", "Area", "Valor_Produccion", "Rendimento"}

\* .agg({metric_key: aggregation_func}) on one group: 'mean' for Rendimento,
\* 'sum' otherwise.
Agg(group, mk) ==
    IF mk = "Rendimento"
    THEN Frac(Soma(group, mk), Cardinality(group))
    ELSE <<Soma(group, mk), 1>>

\* groupby(col).agg(...): one row per group, group keys ascending.
GroupByAgg(S, col, mk) ==
    LET gs == Sorted({r[col] : r \in S})
    IN [i \in 1..Len(gs) |->
          [grupo |-> gs[i], valor |-> Agg({r \in S : r[col] = gs[i]}, mk)]]

\* keep='last': equal values in reverse order of appearance.
PosicaoKeepLast(t, i) ==
    1 + Cardinality({j \in 1..Len(t) :
                        \/ FracMaior(t[j].valor, t[i].valor)
                        \/ t[j].valor = t[i].valor /\ j > i})

\* Position of row i of t in descending order of valor, equal values in
\* their order of appearance (keep='first', stable sort).
Posicao(t, i) ==
    1 + Cardinality({j \in 1..Len(t) :
                        \/ FracMaior(t[j].valor, t[i].valor)
                        \/ t[j].valor = t[i].valor /\ j < i})

\* DataFrame.nlargest(n, columns=metric_key)
NLargest(n, t) ==
    [p \in 1..Min(n, Len(t)) |-> t[CHOOSE i \in 1..Len(t) : Posicao(t, i) = p]]

\* bar_data with the single-municipality comparison taken from the filtered
\* table, as the all-municipalities one is.
BarDataSoFiltrado(d, filtrado, m, mk) ==
    IF m = Todos
    THEN NLargest(TopN, GroupByAgg(UltimoAno(filtrado), "Municipio", mk))
    ELSE GroupByAgg(UltimoAno(filtrado), "Cultura", mk)

\* bar_data
BarData(d, filtrado, m, mk) ==
    LET latest == LatestYear(filtrado)
    IN IF m = Todos
       THEN NLargest(TopN, GroupByAgg(UltimoAno(filtrado), "Municipio", mk))
       ELSE GroupByAgg({r \in d : r.Municipio = m /\ r.Ano = latest}, "Cultura", mk)

(***************************************************************************)
(* Inputs: the reported data written to the four Excel files               *)
(***************************************************************************)
\* The subsets of S with at most n elements.
RECURSIVE SubsAte(_, _)
SubsAte(S, n) ==
    IF n = 0 THEN {{}}
    ELSE LET P == SubsAte(S, n - 1) IN P \cup {q \cup {x} : q \in P, x \in S}

Chaves == Anos \X Culturas \X Municipios

\* The files that report a key: all four, or the yield file alone.
Perfis == {MetricasSet, {"Rendimento"}}

\* The value reported for metric m and key k.
ValorRelatado(m, k) ==
    CASE m = "Area" -> ((k[2] + k[3]) % 2) + 1
      [] m = "Toneladas" -> ((k[2] + k[3]) % 4) + 1
      [] m = "Valor_Produccion" -> k[1]
      [] m = "Rendimento" -> ((k[1] + k[2] + k[3]) % 3) + 1

\* The four files for keys K reported with profiles perfil[k].
Fontes(K, perfil) ==
    [m \in MetricasSet |->
       {[Ano |-> k[1], Cultura |-> k[2], Municipio |-> k[3],
         Valor |-> ValorRelatado(m, k)] : k \in {x \in K : m \in perfil[x]}}]

\* Wide data sets: either one crop in many municipalities in one year, or
\* many crops in one municipality, the first crop reported for year 1 and
\* the others for year 2.
ChavesLargas ==
    LET idx == {S \in SUBSET (1..NumTop) : Cardinality(S) >= NumTop - 2}
    IN {{<<1, 1, i>> : i \in S} : S \in idx}
         \cup {{<<IF i = 1 THEN 1 ELSE 2, i, 1>> : i \in S} : S \in idx}

RunInit ==
    /\ cache = <<>>
    /\ df_none = FALSE
    /\ df = {}
    /\ error_path = ""
    /\ geojson_none = FALSE
    /\ pc = "inicio"
    /\ widgets = {}
    /\ cultura_selecionada = SemCultura
    /\ municipio_selecionado = Todos
    /\ ano_selecionado = <<0, 0>>
    /\ df_filtrado = {}
    /\ latest_year_in_range = 0
    /\ kpi = <<>>
    /\ time_series_data = <<>>
    /\ metric_key = ""
    /\ bar_data = <<>>
    /\ tela = <<>>

AppInit ==
    /\ app \in {"streamlit_app", "prueba"}
    /\ geojson_existe \in BOOLEAN
    /\ app = "streamlit_app" => geojson_existe

Init ==
    /\ AppInit
    /\ existe \in SUBSET MetricasSet
    /\ \E K \in SubsAte(Chaves, IF existe = MetricasSet THEN MaxLinhas ELSE MaxLinhasFalha) :
         \E perfil \in [K -> Perfis] : fonte = Fontes(K, perfil)
    /\ RunInit

InitTop ==
    /\ AppInit
    /\ existe \in {MetricasSet} \cup {MetricasSet \ {m} : m \in MetricasSet}
    /\ \E K \in (IF existe = MetricasSet THEN ChavesLargas ELSE {{}, {<<1, 1, 1>>}}) :
         fonte = Fontes(K, [k \in K |-> MetricasSet])
    /\ RunInit

(***************************************************************************)
(* The steps of one run of the script                                      *)
(***************************************************************************)
\* df, error_path = carregar_e_preparar_dados()  (and carregar_geojson())
Carregar ==
    /\ pc = "inicio"
    /\ LET ret == IF cache # <<>> THEN cache[1]
                  ELSE CarregarEPrepararDados(existe, fonte)
       IN /\ cache' = <<ret>>
          /\ df_none' = ret.df_none
          /\ df' = ret.df
          /\ error_path' = ret.error_path
    /\ geojson_none' = (app = "prueba" /\ ~geojson_existe)
    /\ pc' = "carregado"
    /\ UNCHANGED <<app, existe, fonte, geojson_existe, widgets, cultura_selecionada,
                   municipio_selecionado, ano_selecionado, df_filtrado,
                   latest_year_in_range, kpi, time_series_data, metric_key,
                   bar_data, tela>>

\* The error check without st.stop().
VerificarErroSemStop ==
    /\ pc = "carregado"
    /\ tela' = tela \o (IF df_none THEN <<"error_arquivo">> ELSE <<>>)
                    \o (IF geojson_none THEN <<"error_geojson">> ELSE <<>>)
    /\ pc' = "sidebar"
    /\ UNCHANGED <<app, existe, fonte, geojson_existe, cache, df_none, df,
                   error_path, geojson_none, widgets, cultura_selecionada,
                   municipio_selecionado, ano_selecionado, df_filtrado,
                   latest_year_in_range, kpi, time_series_data, metric_key,
                   bar_data>>

\* if df is None: st.error(...); st.stop()
\* prueba: if geojson_data is None: st.error(...); st.stop()
VerificarErro ==
    /\ pc = "carregado"
    /\ IF df_none
       THEN /\ tela' = tela \o (IF app = "streamlit_app"
                                THEN <<"error_arquivo", "warning_pasta_data">>
                                ELSE <<"error_arquivo">>)
            /\ pc' = "parado"
       ELSE IF geojson_none
            THEN /\ tela' = tela \o <<"error_geojson", "warning_geojson">>
                 /\ pc' = "parado"
            ELSE /\ tela' = tela
                 /\ pc' = "sidebar"
    /\ UNCHANGED <<app, existe, fonte, geojson_existe, cache, df_none, df,
                   error_path, geojson_none, widgets, cultura_selecionada,
                   municipio_selecionado, ano_selecionado, df_filtrado,
                   latest_year_in_range, kpi, time_series_data, metric_key,
                   bar_data>>

\* The filtering applied in place to the object held by the cache (a cache
\* that hands out the stored object itself, not a copy).
FiltrosInPlace ==
    /\ pc = "sidebar"
    /\ IF df_none
       THEN /\ pc' = "excecao"
            /\ tela' = tela \o <<"sidebar">>
            /\ UNCHANGED <<widgets, cultura_selecionada, municipio_selecionado,
                           ano_selecionado, df_filtrado, cache, df>>
       ELSE IF df = {}
       THEN /\ widgets' = {"cultura", "municipio"}
            /\ pc' = "excecao"
            /\ tela' = tela \o <<"sidebar">>
            /\ UNCHANGED <<cultura_selecionada, municipio_selecionado,
                           ano_selecionado, df_filtrado, cache, df>>
       ELSE \E c \in OpcoesCultura(df) :
            \E m \in OpcoesMunicipio(df, c) :
            \E lo \in OpcoesAno(df) :
            \E hi \in {a \in OpcoesAno(df) : lo <= a} :
               /\ widgets' = {"cultura", "municipio", "ano"}
               /\ cultura_selecionada' = c
               /\ municipio_selecionado' = m
               /\ ano_selecionado' = <<lo, hi>>
               /\ df_filtrado' = Filtrar(df, c, m, lo, hi)
               /\ df' = {r \in df : r.Ano >= lo /\ r.Ano <= hi}
               /\ cache' = <<[cache[1] EXCEPT !.df = {r \in df : r.Ano >= lo /\ r.Ano <= hi}]>>
               /\ tela' = tela \o <<"sidebar", "titulo">>
               /\ pc' = "filtrado"
    /\ UNCHANGED <<app, existe, fonte, geojson_existe, df_none,
                   error_path, geojson_none, latest_year_in_range, kpi,
                   time_series_data, metric_key, bar_data>>

\* The sidebar widgets and the filtering of the fact table.  With df None,
\* df['Cultura'] raises TypeError before any widget; with an empty fact table
\* the crop selectbox returns None and int(df['Ano'].min()) raises ValueError.
Filtros ==
    /\ pc = "sidebar"
    /\ IF df_none
       THEN /\ pc' = "excecao"
            /\ tela' = tela \o <<"sidebar">>
            /\ UNCHANGED <<widgets, cultura_selecionada, municipio_selecionado,
                           ano_selecionado, df_filtrado>>
       ELSE IF df = {}
       THEN /\ widgets' = {"cultura", "municipio"}
            /\ pc' = "excecao"
            /\ tela' = tela \o <<"sidebar">>
            /\ UNCHANGED <<cultura_selecionada, municipio_selecionado,
                           ano_selecionado, df_filtrado>>
       ELSE \E c \in OpcoesCultura(df) :
            \E m \in OpcoesMunicipio(df, c) :
            \E lo \in OpcoesAno(df) :
            \E hi \in {a \in OpcoesAno(df) : lo <= a} :
               /\ widgets' = {"cultura", "municipio", "ano"}
               /\ cultura_selecionada' = c
               /\ municipio_selecionado' = m
               /\ ano_selecionado' = <<lo, hi>>
               /\ df_filtrado' = Filtrar(df, c, m, lo, hi)
               /\ tela' = tela \o <<"sidebar", "titulo">>
               /\ pc' = "filtrado"
    /\ UNCHANGED <<app, existe, fonte, geojson_existe, cache, df_none, df,
                   error_path, geojson_none, latest_year_in_range, kpi,
                   time_series_data, metric_key, bar_data>>

\* The KPI block without the 'if not df_filtrado.empty' test.
KPIsSemGuarda ==
    /\ pc = "filtrado"
    /\ kpi' = <<Kpis(df_filtrado)>>
    /\ tela' = tela \o <<"subheader_kpis", "kpis">>
    /\ pc' = "kpis"
    /\ UNCHANGED <<app, existe, fonte, geojson_existe, cache, df_none, df,
                   error_path, geojson_none, widgets, cultura_selecionada,
                   municipio_selecionado, ano_selecionado, df_filtrado,
                   latest_year_in_range, time_series_data, metric_key, bar_data>>

\* The KPI block.
KPIs ==
    /\ pc = "filtrado"
    /\ IF df_filtrado # {}
       THEN /\ latest_year_in_range' = LatestYear(df_filtrado)
            /\ IF UltimoAno(df_filtrado) # {}
               THEN /\ kpi' = <<Kpis(UltimoAno(df_filtrado))>>
                    /\ tela' = tela \o <<"subheader_kpis", "kpis">>
               ELSE /\ kpi' = kpi
                    /\ tela' = tela \o (IF app = "streamlit_app"
                                        THEN <<"subheader_kpis", "warning_sem_ultimo_ano">>
                                        ELSE <<"subheader_kpis">>)
       ELSE /\ tela' = tela \o <<"warning_sem_dados">>
            /\ UNCHANGED <<latest_year_in_range, kpi>>
    /\ pc' = "kpis"
    /\ UNCHANGED <<app, existe, fonte, geojson_existe, cache, df_none, df,
                   error_path, geojson_none, widgets, cultura_selecionada,
                   municipio_selecionado, ano_selecionado, df_filtrado,
                   time_series_data, metric_key, bar_data>>

\* with col_graf1: the line chart of the yearly metrics.
SerieTemporal ==
    /\ pc = "kpis"
    /\ IF df_filtrado # {}
       THEN /\ time_series_data' = TimeSeries(df_filtrado)
            /\ tela' = tela \o <<"grafico_linhas">>
       ELSE /\ time_series_data' = time_series_data
            /\ tela' = tela \o (IF app = "streamlit_app"
                                THEN <<"info_selecione_periodo">> ELSE <<>>)
    /\ pc' = "serie"
    /\ UNCHANGED <<app, existe, fonte, geojson_existe, cache, df_none, df,
                   error_path, geojson_none, widgets, cultura_selecionada,
                   municipio_selecionado, ano_selecionado, df_filtrado,
                   latest_year_in_range, kpi, metric_key, bar_data>>

\* with col_graf2: the metric selectbox and the bar chart.
Comparativo ==
    /\ pc = "serie"
    /\ IF df_filtrado # {}
       THEN \E mk \in OpcoesMetrica :
               /\ latest_year_in_range' = LatestYear(df_filtrado)
               /\ widgets' = widgets \cup {"metrica"}
               /\ metric_key' = mk
               /\ IF UltimoAno(df_filtrado) # {}
                  THEN /\ bar_data' = BarData(df, df_filtrado, municipio_selecionado, mk)
                       /\ tela' = tela \o <<"subheader_comparativo", "grafico_barras">>
                  ELSE /\ bar_data' = bar_data
                       /\ tela' = tela \o (IF app = "streamlit_app"
                                           THEN <<"subheader_comparativo", "info_sem_comparar">>
                                           ELSE <<"subheader_comparativo">>)
       ELSE UNCHANGED <<latest_year_in_range, widgets, metric_key, bar_data, tela>>
    /\ pc' = "barras"
    /\ UNCHANGED <<app, existe, fonte, geojson_existe, cache, df_none, df,
                   error_path, geojson_none, cultura_selecionada,
                   municipio_selecionado, ano_selecionado, df_filtrado, kpi,
                   time_series_data>>

\* The rest of the script: (prueba) the map tab; the detail table; the footer.
Finalizar ==
    /\ pc = "barras"
    /\ tela' = tela
         \o (IF app = "prueba"
             THEN IF {r \in df : r.Cultura = cultura_selecionada /\ r.Ano = LatestYear(df)} # {}
                  THEN <<"mapa">> ELSE <<"info_sem_mapa">>
             ELSE <<>>)
         \o <<"tabela", "rodape">>
    /\ pc' = "fim"
    /\ UNCHANGED <<app, existe, fonte, geojson_existe, cache, df_none, df,
                   error_path, geojson_none, widgets, cultura_selecionada,
                   municipio_selecionado, ano_selecionado, df_filtrado,
                   latest_year_in_range, kpi, time_series_data, metric_key,
                   bar_data>>

\* A user interaction: Streamlit runs the script again from the top; only
\* the st.cache_data cache survives.
Rerun ==
    /\ pc \in {"fim", "parado", "excecao"}
    /\ df_none' = FALSE
    /\ df' = {}
    /\ error_path' = ""
    /\ geojson_none' = FALSE
    /\ pc' = "inicio"
    /\ widgets' = {}
    /\ cultura_selecionada' = SemCultura
    /\ municipio_selecionado' = Todos
    /\ ano_selecionado' = <<0, 0>>
    /\ df_filtrado' = {}
    /\ latest_year_in_range' = 0
    /\ kpi' = <<>>
    /\ time_series_data' = <<>>
    /\ metric_key' = ""
    /\ bar_data' = <<>>
    /\ tela' = <<>>
    /\ UNCHANGED <<app, existe, fonte, geojson_existe, cache>>

Next ==
    \/ Carregar
    \/ VerificarErro
    \/ Filtros
    \/ KPIs
    \/ SerieTemporal
    \/ Comparativo
    \/ Finalizar
    \/ Rerun

Spec == Init /\ [][Next]_vars

SpecTop == InitTop /\ [][Next]_vars

(***************************************************************************)
(* Properties                                                              *)
(***************************************************************************)
\* The value carregar_e_preparar_dados returned (held by the cache).
Carregou == cache # <<>> /\ ~cache[1].df_none

\* Each source is unique on the key (year, crop, municipality).
FontesUnicas ==
    \A m \in MetricasSet : \A r1, r2 \in fonte[m] : Chave(r1) = Chave(r2) => r1 = r2

\* The selection is complete and the script is at or past the filtering.
Selecionou == pc \in {"filtrado", "kpis", "serie", "barras", "fim"}

\* C1 (join completeness): when the four sources are unique on the key, the
\* fact table returned has exactly one row for every key that appears in at
\* least one source, no row for any other key, and in each row the measure
\* of every source that lacks the key is 0.
C1_JoinCompleteness ==
    (Carregou /\ FontesUnicas) =>
        LET d == cache[1].df
        IN /\ ChavesDe(d) = UNION {ChavesDe(fonte[m]) : m \in MetricasSet}
           /\ \A k \in ChavesDe(d) : Cardinality({r \in d : Chave(r) = k}) = 1
           /\ \A r \in d : \A m \in MetricasSet :
                 Chave(r) \notin ChavesDe(fonte[m]) => r[m] = 0

\* A load that merged a key found in the yield file only with a key found in
\* all four files.
C1_Witness ==
    /\ Carregou
    /\ FontesUnicas
    /\ \E r \in cache[1].df :
          /\ Chave(r) \notin ChavesDe(fonte["Area"])
          /\ Chave(r) \in ChavesDe(fonte["Rendimento"])
          /\ r.Area = 0
          /\ r.Rendimento > 0
    /\ \E r \in cache[1].df : \A m \in MetricasSet : Chave(r) \in ChavesDe(fonte[m])

\* C2 (fail-fast on a missing source): when exactly one of the four files is
\* missing, the loader returns None with the path of that file, whatever its
\* position, and no table merged from the readable files.
C2_FailFast ==
    (cache # <<>> /\ Cardinality(MetricasSet \ existe) = 1) =>
        /\ cache[1].df_none
        /\ cache[1].df = {}
        /\ \A m \in MetricasSet \ existe : cache[1].error_path = m

\* The third file is the only one missing, the others hold rows, and the
\* loader has returned.
C2_Witness ==
    /\ cache # <<>>
    /\ existe = MetricasSet \ {"Valor_Produccion"}
    /\ fonte["Area"] # {}
    /\ fonte["Rendimento"] # {}
    /\ cache[1].error_path = "Valor_Produccion"

\* Number of occurrences of x in sequence s.
Ocorrencias(s, x) == Cardinality({i \in 1..Len(s) : s[i] = x})

\* C3 (halt on load failure): in a run where the loader reported a missing
\* source the script only reports the error, once, and stops: no widget is
\* evaluated, no filtered table, KPI, time series or bar data is built and
\* no chart or table is rendered.
C3_HaltOnLoadFailure ==
    (pc # "inicio" /\ df_none) =>
        /\ pc \in {"carregado", "parado"}
        /\ widgets = {}
        /\ df_filtrado = {}
        /\ kpi = <<>>
        /\ time_series_data = <<>>
        /\ metric_key = ""
        /\ bar_data = <<>>
        /\ pc = "carregado" => tela = <<>>
        /\ pc = "parado" =>
              /\ Ocorrencias(tela, "error_arquivo") = 1
              /\ \A i \in 1..Len(tela) :
                    tela[i] \in {"error_arquivo", "warning_pasta_data"}

\* A run stopped after reporting the missing file.
C3_Witness ==
    /\ pc = "parado"
    /\ df_none
    /\ error_path # ""
    /\ Ocorrencias(tela, "error_arquivo") = 1

\* C4 (filtered table): df_filtrado holds exactly the rows of the fact table
\* whose crop is the selected one, whose municipality is the selected one
\* (any when the selector is 'all') and whose year lies in the selected
\* range, each row with all its columns unchanged.
C4_FilteredTable ==
    Selecionou =>
        df_filtrado =
            {r \in df : /\ r.Cultura = cultura_selecionada
                        /\ municipio_selecionado # Todos
                              => r.Municipio = municipio_selecionado
                        /\ ano_selecionado[1] <= r.Ano
                        /\ r.Ano <= ano_selecionado[2]}

\* A non-empty filtered table for one municipality that leaves out a row of
\* the same crop and municipality by its year and a row of the same crop by
\* its municipality.
C4_Witness ==
    /\ Selecionou
    /\ df_filtrado # {}
    /\ municipio_selecionado # Todos
    /\ \E r \in df \ df_filtrado :
          /\ r.Cultura = cultura_selecionada
          /\ r.Municipio = municipio_selecionado
          /\ r.Ano > ano_selecionado[2]
    /\ \E r \in df \ df_filtrado :
          /\ r.Cultura = cultura_selecionada
          /\ r.Municipio # municipio_selecionado

\* The script is past the line chart block.
SerieFeita == pc \in {"serie", "barras", "fim"}

\* C5 (time series): for a non-empty filtered table the time series has one
\* row per distinct year of the filtered table, in ascending year order, and
\* the row of year y holds the sums of area, tonnage and production value
\* over the filtered rows of year y and, as yield,
\* sum(yield * area) / sum(area) over those rows.
C5_TimeSeries ==
    (SerieFeita /\ df_filtrado # {}) =>
        LET ts == time_series_data
        IN /\ Len(ts) = Cardinality({r.Ano : r \in df_filtrado})
           /\ \A i \in 1..Len(ts) : \E r \in df_filtrado : r.Ano = ts[i].Ano
           /\ \A i, j \in 1..Len(ts) : i < j => ts[i].Ano < ts[j].Ano
           /\ \A i \in 1..Len(ts) :
                 LET g == {r \in df_filtrado : r.Ano = ts[i].Ano}
                 IN /\ ts[i].Area = Soma(g, "Area")
                    /\ ts[i].Toneladas = Soma(g, "Toneladas")
                    /\ ts[i].Valor_Produccion = Soma(g, "Valor_Produccion")
                    /\ ts[i].Rendimento[1] * Soma(g, "Area")
                          = SomaProd(g, "Rendimento", "Area") * ts[i].Rendimento[2]
                    /\ Soma(g, "Area") > 0 => ts[i].Rendimento[2] > 0

\* A time series of two years, one of them grouping two rows whose
\* area-weighted yield differs from the plain mean of their yields.
C5_Witness ==
    /\ SerieFeita
    /\ Len(time_series_data) = 2
    /\ \E i \in 1..Len(time_series_data) :
          LET g == {r \in df_filtrado : r.Ano = time_series_data[i].Ano}
          IN /\ Cardinality(g) = 2
             /\ Soma(g, "Area") > 0
             /\ time_series_data[i].Rendimento # Frac(Soma(g, "Rendimento"), 2)

\* The bar data of this run has been computed.
BarFeita == pc \in {"barras", "fim"} /\ metric_key # ""

\* The rows behind the bar of group g: a municipality of the latest-year
\* subset when the selector is 'all', a crop of the selected municipality in
\* the latest year otherwise.
GrupoBarra(g) ==
    IF municipio_selecionado = Todos
    THEN {r \in UltimoAno(df_filtrado) : r.Municipio = g}
    ELSE {r \in df : /\ r.Municipio = municipio_selecionado
                     /\ r.Ano = latest_year_in_range
                     /\ r.Cultura = g}

\* C6 (ranking by yield is area-weighted): when the comparison measure is
\* Rendimento, the value of each group is sum(yield * area) / sum(area) over
\* the rows of the group, and 0 when the total area of the group is 0.
C6_RankingYieldWeighted ==
    (BarFeita /\ metric_key = "Rendimento") =>
        \A i \in 1..Len(bar_data) :
            LET g == GrupoBarra(bar_data[i].grupo)
            IN IF Soma(g, "Area") = 0
               THEN bar_data[i].valor = <<0, 1>>
               ELSE bar_data[i].valor[1] * Soma(g, "Area")
                       = SomaProd(g, "Rendimento", "Area") * bar_data[i].valor[2]

\* The municipalities of the latest-year subset and their aggregates.
MunicipiosUltimoAno == {r.Municipio : r \in UltimoAno(df_filtrado)}

AggMunicipio(g) == Agg({r \in UltimoAno(df_filtrado) : r.Municipio = g}, metric_key)

Listados == {bar_data[i].grupo : i \in 1..Len(bar_data)}

\* C7 (top-10 ranking): with the selector 'all' the comparison lists
\* min(10, number of municipalities of the latest-year subset) municipalities
\* in descending order of the aggregate, no municipality left out has a
\* larger aggregate than a listed one, and the list is the one fixed by the
\* input: among equal aggregates the municipalities come in ascending name
\* order, at the tenth place too.
C7_Top10 ==
    (BarFeita /\ municipio_selecionado = Todos) =>
        /\ Len(bar_data) = Min(10, Cardinality(MunicipiosUltimoAno))
        /\ \A i \in 1..Len(bar_data) :
              /\ bar_data[i].grupo \in MunicipiosUltimoAno
              /\ bar_data[i].valor = AggMunicipio(bar_data[i].grupo)
        /\ \A i, j \in 1..Len(bar_data) :
              i < j => /\ bar_data[i].grupo # bar_data[j].grupo
                       /\ ~FracMaior(bar_data[j].valor, bar_data[i].valor)
                       /\ bar_data[i].valor = bar_data[j].valor
                             => bar_data[i].grupo < bar_data[j].grupo
        /\ \A g \in MunicipiosUltimoAno \ Listados : \A i \in 1..Len(bar_data) :
              /\ ~FracMaior(AggMunicipio(g), bar_data[i].valor)
              /\ AggMunicipio(g) = bar_data[i].valor => bar_data[i].grupo < g

\* Ten municipalities listed out of more, with a municipality left out whose
\* aggregate equals that of the tenth.
C7_Witness ==
    /\ BarFeita
    /\ municipio_selecionado = Todos
    /\ Len(bar_data) = 10
    /\ Cardinality(MunicipiosUltimoAno) > 10
    /\ \E g \in MunicipiosUltimoAno \ Listados : AggMunicipio(g) = bar_data[10].valor
    /\ FracMaior(bar_data[1].valor, bar_data[10].valor)

\* C8 (single-municipality comparison): with one municipality m selected and
\* latest year y, the comparison has one entry for every crop that has a
\* fact-table row for (y, m), the selected crop or not, however many there
\* are, each with the aggregate of the rows of (y, m, crop): it depends on
\* the selected crop only through y.
C8_SingleMunicipality ==
    (BarFeita /\ municipio_selecionado # Todos) =>
        LET linhas == {r \in df : /\ r.Municipio = municipio_selecionado
                                  /\ r.Ano = latest_year_in_range}
        IN /\ latest_year_in_range = LatestYear(df_filtrado)
           /\ Len(bar_data) = Cardinality({r.Cultura : r \in linhas})
           /\ Listados = {r.Cultura : r \in linhas}
           /\ \A i \in 1..Len(bar_data) :
                 bar_data[i].valor =
                     Agg({r \in linhas : r.Cultura = bar_data[i].grupo}, metric_key)

\* A comparison of more than ten crops for one municipality, one of them not
\* the selected crop.
C8_Witness ==
    /\ BarFeita
    /\ municipio_selecionado # Todos
    /\ Len(bar_data) > 10
    /\ \E i \in 1..Len(bar_data) : bar_data[i].grupo # cultura_selecionada
    /\ \E r \in df : r.Municipio = municipio_selecionado /\ r.Ano # latest_year_in_range

\* C9 (zero-denominator safety): the KPI average yield and the yearly yield
\* of the time series are 0 when the total area of their group is 0, and no
\* quotient computed in a run has a zero denominator.
C9_ZeroDenominator ==
    /\ kpi # <<>> =>
          /\ kpi[1].avg_rendimento[2] # 0
          /\ kpi[1].total_area = 0 => kpi[1].avg_rendimento = <<0, 1>>
    /\ \A i \in 1..Len(time_series_data) :
          /\ time_series_data[i].Rendimento[2] # 0
          /\ time_series_data[i].Area = 0 => time_series_data[i].Rendimento = <<0, 1>>
    /\ \A i \in 1..Len(bar_data) : bar_data[i].valor[2] # 0

\* KPIs and a time series computed over rows that report a yield and no area.
C9_Witness ==
    /\ kpi # <<>>
    /\ kpi[1].total_area = 0
    /\ \E r \in UltimoAno(df_filtrado) : r.Rendimento > 0
    /\ \E i \in 1..Len(time_series_data) : time_series_data[i].Area = 0

\* The complete selection matches no row of the fact table.
SelecaoVazia ==
    /\ Selecionou
    /\ ~\E r \in df : /\ r.Cultura = cultura_selecionada
                      /\ municipio_selecionado # Todos
                            => r.Municipio = municipio_selecionado
                      /\ ano_selecionado[1] <= r.Ano
                      /\ r.Ano <= ano_selecionado[2]

\* C10 (empty-selection short-circuit): when the selection matches no row,
\* the filtered table, the time series and the comparison are empty, no KPI
\* is computed and no chart is drawn, the 'no data' warning is shown, and
\* every remaining step of the run can be taken, up to the end of the script.
C10_EmptySelection ==
    SelecaoVazia =>
        /\ df_filtrado = {}
        /\ time_series_data = <<>>
        /\ bar_data = <<>>
        /\ kpi = <<>>
        /\ metric_key = ""
        /\ pc # "filtrado" => Ocorrencias(tela, "warning_sem_dados") = 1
        /\ \A i \in 1..Len(tela) :
              tela[i] \notin {"kpis", "subheader_kpis", "grafico_linhas",
                              "subheader_comparativo", "grafico_barras"}
        /\ pc # "fim" => ENABLED (KPIs \/ SerieTemporal \/ Comparativo \/ Finalizar)

\* A run that ended after a selection that matches no row.
C10_Witness ==
    /\ SelecaoVazia
    /\ df # {}
    /\ pc = "fim"
    /\ Ocorrencias(tela, "warning_sem_dados") = 1

\* The fact table built from the four files, as the first call of the
\* loader returned it.
TabelaOriginal == DfMerged(fonte)

\* In every run the fact table is the one first loaded and the derived tables
\* are those of the current selection over it (each conjunct is stated over
\* the tables the conjuncts before it have tied to the original).
DerivadasDaOriginal ==
    Carregou =>
        /\ cache[1].df = TabelaOriginal
        /\ pc # "inicio" => df = cache[1].df
        /\ Selecionou =>
              df_filtrado = Filtrar(df, cultura_selecionada, municipio_selecionado,
                                    ano_selecionado[1], ano_selecionado[2])
        /\ (pc \in {"kpis", "serie", "barras", "fim"} /\ df_filtrado # {}) =>
              /\ latest_year_in_range = LatestYear(df_filtrado)
              /\ kpi = <<Kpis(UltimoAno(df_filtrado))>>
        /\ (SerieFeita /\ df_filtrado # {}) =>
              time_series_data = TimeSeries(df_filtrado)
        /\ (pc \in {"barras", "fim"} /\ df_filtrado # {}) =>
              bar_data = BarData(df, df_filtrado, municipio_selecionado, metric_key)

\* C11 (purity of the aggregator): after a successful load no step of any
\* run, and no rerun, changes the cached fact table, and in every run, the
\* first or a later one, the filtered table, the latest-year subset (its
\* year and KPIs), the time series and the ranked comparison are those of
\* the current selection over the fact table as first loaded: they do not
\* depend on the interactions made before.
C11_Purity ==
    /\ []DerivadasDaOriginal
    /\ [][Carregou => cache' = cache]_vars

\* The start of a run made after a user interaction (the cache is filled
\* before the loader is called): the run before it filtered a non-empty fact
\* table, and the cache still holds the table as first loaded.
C11_Witness ==
    /\ pc = "inicio"
    /\ Carregou
    /\ cache[1].df # {}
    /\ cache[1].df = TabelaOriginal
    /\ Cardinality(cache[1].df) > 1

\* C12 (KPIs and comparison reflect the last year of the interval): whenever
\* KPIs or the comparison are shown for the selected interval
\* [minYear, maxYear], the year they are computed for is maxYear.
C12_LastYearOfInterval ==
    (kpi # <<>> \/ BarFeita) => latest_year_in_range = ano_selecionado[2]

====
